---- MODULE Spec2Model ----
(***************************************************************************)
(* Model of src/server.js: an Express application over three Mongoose      *)
(* collections (users, thoughts, reactions).                               *)
(*                                                                         *)
(* The document store is the shared state.  Every `await` of a store call  *)
(* is one atomic step; the synchronous code between two awaits belongs to  *)
(* the step that follows it.  Handlers with a single store call are one    *)
(* action; the fetch-then-save handlers are one action per await, with the *)
(* handler's local variables kept in `inflight`.                           *)
(*                                                                         *)
(* Library behaviour the handlers rely on, modelled as the library does    *)
(* it:                                                                     *)
(*   - Model.create / doc.save run validation and the pre('save') hooks;  *)
(*     findByIdAndUpdate / findByIdAndDelete go straight to the store and  *)
(*     run neither.                                                        *)
(*   - `unique: true` is a unique index of the store: an insert or update  *)
(*     that would duplicate the value fails with E11000.                   *)
(*   - doc.save() of a fetched document sends only the delta of the        *)
(*     modified paths: array.push is sent as $push, array.pull as          *)
(*     $pullAll, with $inc of the version key and no version in the        *)
(*     filter.  save() of a document that is no longer stored fails with   *)
(*     DocumentNotFoundError.                                              *)
(*   - findById of an absent id resolves to null.                          *)
(*   - an async handler that throws rejects its promise.  Express 4 drops  *)
(*     the rejection (no response is ever sent); Express 5 forwards it to  *)
(*     the error-handling middleware.  The source pins no version, so both *)
(*     outcomes are possible.                                              *)
(***************************************************************************)
EXTENDS Integers, Sequences, FiniteSets, TLC

VARIABLES users, nextUserId, thoughts, nextThoughtId, reactions,
          nextReactionId, inflight, last

vars == <<users, nextUserId, thoughts, nextThoughtId, reactions,
          nextReactionId, inflight, last>>

userVars == <<users, nextUserId>>
thoughtVars == <<thoughts, nextThoughtId, reactions, nextReactionId>>

----------------------------------------------------------------------------
(* Bounds *)

MaxUsers == 2
MaxFriends == 2
MaxThoughts == 1
MaxReactions == 3
MaxInFlight == 2

UserIds == 1..MaxUsers
ThoughtIds == 1..MaxThoughts
ReactionIds == 1..MaxReactions
Slots == 1..MaxInFlight

----------------------------------------------------------------------------
(* Request inputs *)

Absent == "<absent>"
Usernames == {"a"}
Emails == {"a@x.com", "b@x.com"}
Passwords == {"p", "q"}

\* JSON bodies sent to the user routes: complete ones, and partial ones.
UserBodies ==
  [username : Usernames, email : Emails, password : Passwords]
    \cup [username : {Absent}, email : Emails, password : {Absent}]
    \cup [username : {Absent}, email : {Absent}, password : Passwords \cup {Absent}]

----------------------------------------------------------------------------
(* Schemas and hooks *)

\* bcrypt.hash(plaintext, 10): a digest string that carries its own prefix.
Hash(plaintext) == "$2b$10$" \o plaintext

\* The required paths of userSchema.
UserRequired == {"username", "email", "password"}

\* The paths a body sets.
BodyPaths(body) == {f \in DOMAIN body : body[f] # Absent}

\* UserPreSave with a fault: the hook never hashes.
UserPreSaveNoHash(doc, modified) == doc

\* userSchema.pre('save'): hash the password iff the path is modified.
UserPreSave(doc, modified) ==
  IF "password" \in modified
    THEN [doc EXCEPT !.password = Hash(doc.password)]
    ELSE doc

\* EmailTaken with a fault: the schema declares no unique index.
EmailNeverTaken(email, id) == FALSE

\* The unique index on email: would storing `email` under `id` collide?
EmailTaken(email, id) ==
  \E u \in DOMAIN users : u # id /\ users[u].email = email

\* new User(body): the schema's paths, arrays defaulting to [].
NewUser(body) ==
  [username |-> body.username, email |-> body.email,
   password |-> body.password, friends |-> <<>>]

\* findByIdAndUpdate's $set of the body's paths.
SetPaths(doc, body) ==
  [f \in DOMAIN doc |->
     IF f \in DOMAIN body /\ body[f] # Absent THEN body[f] ELSE doc[f]]

\* Pull with a fault: the value never matches an element.
PullNothing(seq, v) == seq

\* MongooseArray.pull(v) / $pullAll: every occurrence of v is removed.
Pull(seq, v) == SelectSeq(seq, LAMBDA x : x # v)

\* MongooseArray.push(v) / $push: v is appended.
Push(seq, v) == Append(seq, v)

----------------------------------------------------------------------------
(* Responses *)

NoResponse == 0

Idle == [pc |-> "idle"]

\* What the last step of a handler did: the route, its parameters, the array
\* of the parent document before and after a save as the store had it, the
\* array of the handler's local copy, and how the request was answered.
Step(op, id, arg, before, local, status, err) ==
  [op |-> op, id |-> id, arg |-> arg, before |-> before, local |-> local,
   status |-> status, err |-> err]

\* The error-handling middleware: 500 with a generic body.
ErrorBoundary(op, id, arg, err) ==
  Step(op, id, arg, <<>>, <<>>, 500, err)

\* An async handler threw: the rejection is dropped, or (Express 5)
\* forwarded to the error-handling middleware.
Rejected(op, id, arg, err) ==
  {Step(op, id, arg, <<>>, <<>>, NoResponse, err), ErrorBoundary(op, id, arg, err)}

Answered(op, id, arg, status) == Step(op, id, arg, <<>>, <<>>, status, "")

----------------------------------------------------------------------------
Init ==
  /\ users = <<>>
  /\ nextUserId = 1
  /\ thoughts = <<>>
  /\ nextThoughtId = 1
  /\ reactions = <<>>
  /\ nextReactionId = 1
  /\ inflight = [s \in Slots |-> Idle]
  /\ last = Answered("start", 0, 0, NoResponse)

----------------------------------------------------------------------------
(* User routes *)

\* GET /users
GetUsers ==
  /\ last' = Answered("GET /users", 0, 0, 200)
  /\ UNCHANGED <<userVars, thoughtVars, inflight>>

\* POST /users
PostUsers(body) ==
  /\ IF UserRequired \ BodyPaths(body) # {}
       THEN /\ last' \in Rejected("POST /users", 0, body, "ValidationError")
            /\ UNCHANGED userVars
       ELSE IF EmailTaken(body.email, 0)
         THEN /\ last' \in Rejected("POST /users", 0, body, "E11000")
              /\ UNCHANGED userVars
         ELSE /\ nextUserId <= MaxUsers
              /\ users' = [u \in DOMAIN users \cup {nextUserId} |->
                             IF u = nextUserId
                               THEN UserPreSave(NewUser(body), BodyPaths(body))
                               ELSE users[u]]
              /\ nextUserId' = nextUserId + 1
              /\ last' = Answered("POST /users", nextUserId, body, 201)
  /\ UNCHANGED <<thoughtVars, inflight>>

\* PUT /users/:userId
PutUser(id, body) ==
  /\ IF id \notin DOMAIN users
       THEN /\ last' = Answered("PUT /users/:userId", id, body, 200)
            /\ UNCHANGED userVars
       ELSE IF body.email # Absent /\ EmailTaken(body.email, id)
         THEN /\ last' \in Rejected("PUT /users/:userId", id, body, "E11000")
              /\ UNCHANGED userVars
         ELSE /\ users' = [users EXCEPT ![id] = SetPaths(@, body)]
              /\ last' = Answered("PUT /users/:userId", id, body, 200)
              /\ UNCHANGED nextUserId
  /\ UNCHANGED <<thoughtVars, inflight>>

\* DELETE /users/:userId
DeleteUser(id) ==
  /\ users' = [u \in DOMAIN users \ {id} |-> users[u]]
  /\ last' = Answered("DELETE /users/:userId", id, 0, 204)
  /\ UNCHANGED <<nextUserId, thoughtVars, inflight>>

\* The friend arrays grow only through the attach handler: the requests in
\* flight that will still push onto user `id`.
PendingPushes(id) ==
  Cardinality({s \in Slots : /\ inflight[s].pc = "fetched"
                             /\ inflight[s].op = "POST friends"
                             /\ inflight[s].id = id})

\* POST and DELETE /users/:userId/friends/:friendId, up to the first await:
\* const user = await User.findById(userId)
FriendFind(s, op, id, friendId) ==
  /\ inflight[s].pc = "idle"
  /\ \A t \in Slots : t < s => inflight[t].pc # "idle"
  /\ op = "POST friends" /\ id \in DOMAIN users =>
       Len(users[id].friends) + PendingPushes(id) < MaxFriends
  /\ inflight' = [inflight EXCEPT ![s] =
       [pc |-> "fetched", op |-> op, id |-> id, arg |-> friendId,
        found |-> id \in DOMAIN users,
        local |-> IF id \in DOMAIN users THEN users[id].friends ELSE <<>>]]
  /\ UNCHANGED <<userVars, thoughtVars, last>>

\* The handler's own copy after its push / pull.
LocalFriends(r) ==
  IF r.op = "POST friends" THEN Push(r.local, r.arg) ELSE Pull(r.local, r.arg)

\* SaveFriends with a fault: the save writes the handler's whole local array.
SaveFriendsOverwrite(r) ==
  [users EXCEPT ![r.id].friends = LocalFriends(r)]

\* user.save() of a fetched user whose friends array was pushed to / pulled
\* from: the pre('save') hook, then the delta applied to the stored document.
SaveFriends(r) ==
  [users EXCEPT ![r.id] =
     [UserPreSave(@, {"friends"}) EXCEPT !.friends =
        IF r.op = "POST friends" THEN Push(@, r.arg) ELSE Pull(@, r.arg)]]

\* ... the rest of the two friend handlers: push / pull, save, respond.
FriendSave(s) ==
  LET r == inflight[s] IN
  /\ r.pc = "fetched"
  /\ r.op \in {"POST friends", "DELETE friends"}
  /\ IF ~r.found
       THEN /\ last' \in Rejected(r.op, r.id, r.arg, "TypeError")
            /\ UNCHANGED userVars
       ELSE IF r.id \notin DOMAIN users
         THEN /\ last' \in Rejected(r.op, r.id, r.arg, "DocumentNotFoundError")
              /\ UNCHANGED userVars
         ELSE /\ users' = SaveFriends(r)
              /\ last' = Step(r.op, r.id, r.arg, users[r.id].friends,
                              LocalFriends(r),
                              IF r.op = "POST friends" THEN 201 ELSE 204, "")
              /\ UNCHANGED nextUserId
  /\ inflight' = [inflight EXCEPT ![s] = Idle]
  /\ UNCHANGED thoughtVars

----------------------------------------------------------------------------
(* Thought and reaction routes *)

ThoughtTexts == {"t", "u"}
ReactionTexts == {"hi"}

\* JSON bodies sent to POST /thoughts and PUT /thoughts/:thoughtId.
ThoughtBodies ==
  [thoughtText : ThoughtTexts \cup {Absent}, username : Usernames]

\* JSON bodies sent to POST /thoughts/:thoughtId/reactions.
ReactionBodies ==
  [reactionBody : ReactionTexts \cup {Absent}, username : Usernames]

\* The required paths of thoughtSchema and of reactionSchema.
ThoughtRequired == {"thoughtText", "username"}
ReactionRequired == {"reactionBody", "username"}

\* new Thought(body)
NewThought(body) ==
  [thoughtText |-> body.thoughtText, username |-> body.username,
   reactions |-> <<>>]

\* new Reaction(body)
NewReaction(body) ==
  [reactionBody |-> body.reactionBody, username |-> body.username]

\* GET /thoughts
GetThoughts ==
  /\ last' = Answered("GET /thoughts", 0, 0, 200)
  /\ UNCHANGED <<userVars, thoughtVars, inflight>>

\* POST /thoughts
PostThoughts(body) ==
  /\ IF ThoughtRequired \ BodyPaths(body) # {}
       THEN /\ last' \in Rejected("POST /thoughts", 0, body, "ValidationError")
            /\ UNCHANGED <<thoughts, nextThoughtId>>
       ELSE /\ nextThoughtId <= MaxThoughts
            /\ thoughts' = [t \in DOMAIN thoughts \cup {nextThoughtId} |->
                              IF t = nextThoughtId THEN NewThought(body)
                                                   ELSE thoughts[t]]
            /\ nextThoughtId' = nextThoughtId + 1
            /\ last' = Answered("POST /thoughts", nextThoughtId, body, 201)
  /\ UNCHANGED <<userVars, reactions, nextReactionId, inflight>>

\* PUT /thoughts/:thoughtId
PutThought(id, body) ==
  /\ thoughts' = IF id \in DOMAIN thoughts
                   THEN [thoughts EXCEPT ![id] = SetPaths(@, body)]
                   ELSE thoughts
  /\ last' = Answered("PUT /thoughts/:thoughtId", id, body, 200)
  /\ UNCHANGED <<userVars, nextThoughtId, reactions, nextReactionId, inflight>>

\* DeleteThought with a fault: the delete cascades to the thought's reactions.
DeleteThoughtCascade(id) ==
  /\ thoughts' = [t \in DOMAIN thoughts \ {id} |-> thoughts[t]]
  /\ reactions' =
       IF id \in DOMAIN thoughts
         THEN [x \in DOMAIN reactions \ {thoughts[id].reactions[i] :
                                           i \in DOMAIN thoughts[id].reactions} |->
                 reactions[x]]
         ELSE reactions
  /\ last' = Step("DELETE /thoughts/:thoughtId", id, 0,
                  IF id \in DOMAIN thoughts THEN thoughts[id].reactions ELSE <<>>,
                  <<>>, 204, "")
  /\ UNCHANGED <<userVars, nextThoughtId, nextReactionId, inflight>>

\* DELETE /thoughts/:thoughtId
DeleteThought(id) ==
  /\ thoughts' = [t \in DOMAIN thoughts \ {id} |-> thoughts[t]]
  /\ last' = Step("DELETE /thoughts/:thoughtId", id, 0,
                  IF id \in DOMAIN thoughts THEN thoughts[id].reactions ELSE <<>>,
                  <<>>, 204, "")
  /\ UNCHANGED <<userVars, nextThoughtId, reactions, nextReactionId, inflight>>

\* Reaction ids are issued by Reaction.create: the requests in flight that
\* will still create one.
PendingCreates ==
  Cardinality({s \in Slots : /\ inflight[s].pc = "fetched"
                             /\ inflight[s].op = "POST reactions"})

\* POST /thoughts/:thoughtId/reactions (arg: the body) and
\* DELETE /thoughts/:thoughtId/reactions/:reactionId (arg: the reaction id),
\* up to the first await: const thought = await Thought.findById(thoughtId)
ReactionFind(s, op, id, arg) ==
  /\ inflight[s].pc = "idle"
  /\ \A t \in Slots : t < s => inflight[t].pc # "idle"
  /\ op = "POST reactions" => nextReactionId + PendingCreates <= MaxReactions
  /\ inflight' = [inflight EXCEPT ![s] =
       [pc |-> "fetched", op |-> op, id |-> id, arg |-> arg,
        found |-> id \in DOMAIN thoughts,
        local |-> IF id \in DOMAIN thoughts THEN thoughts[id].reactions
                                            ELSE <<>>]]
  /\ UNCHANGED <<userVars, thoughtVars, last>>

\* POST reactions, second await: const reaction = await Reaction.create(body).
\* It runs whether or not the thought was found.
ReactionCreate(s) ==
  LET r == inflight[s] IN
  /\ r.pc = "fetched"
  /\ r.op = "POST reactions"
  /\ IF ReactionRequired \ BodyPaths(r.arg) # {}
       THEN /\ last' \in Rejected(r.op, r.id, 0, "ValidationError")
            /\ inflight' = [inflight EXCEPT ![s] = Idle]
            /\ UNCHANGED <<reactions, nextReactionId>>
       ELSE /\ reactions' = [x \in DOMAIN reactions \cup {nextReactionId} |->
                               IF x = nextReactionId THEN NewReaction(r.arg)
                                                     ELSE reactions[x]]
            /\ nextReactionId' = nextReactionId + 1
            /\ inflight' = [inflight EXCEPT ![s] =
                              [r EXCEPT !.pc = "created", !.arg = nextReactionId]]
            /\ last' = Step(r.op, r.id, nextReactionId, <<>>, <<>>, NoResponse, "")
  /\ UNCHANGED <<userVars, thoughts, nextThoughtId>>

\* The handler's own copy after its push / pull.
LocalReactions(r) ==
  IF r.op = "POST reactions" THEN Push(r.local, r.arg) ELSE Pull(r.local, r.arg)

\* thought.save() of a fetched thought whose reactions array was pushed to /
\* pulled from: the delta applied to the stored document.
SaveReactions(r) ==
  [thoughts EXCEPT ![r.id].reactions =
     IF r.op = "POST reactions" THEN Push(@, r.arg) ELSE Pull(@, r.arg)]

\* POST reactions, the rest: thought.reactions.push(reaction._id), save,
\* respond 201 with the reaction.
ReactionAttach(s) ==
  LET r == inflight[s] IN
  /\ r.pc = "created"
  /\ IF ~r.found
       THEN /\ last' \in Rejected(r.op, r.id, r.arg, "TypeError")
            /\ UNCHANGED thoughts
       ELSE IF r.id \notin DOMAIN thoughts
         THEN /\ last' \in Rejected(r.op, r.id, r.arg, "DocumentNotFoundError")
              /\ UNCHANGED thoughts
         ELSE /\ thoughts' = SaveReactions(r)
              /\ last' = Step(r.op, r.id, r.arg, thoughts[r.id].reactions,
                              LocalReactions(r), 201, "")
  /\ inflight' = [inflight EXCEPT ![s] = Idle]
  /\ UNCHANGED <<userVars, nextThoughtId, reactions, nextReactionId>>

\* DELETE reactions, second await: thought.reactions.pull(reactionId), save.
ReactionDetach(s) ==
  LET r == inflight[s] IN
  /\ r.pc = "fetched"
  /\ r.op = "DELETE reactions"
  /\ IF ~r.found
       THEN /\ last' \in Rejected(r.op, r.id, r.arg, "TypeError")
            /\ inflight' = [inflight EXCEPT ![s] = Idle]
            /\ UNCHANGED thoughts
       ELSE IF r.id \notin DOMAIN thoughts
         THEN /\ last' \in Rejected(r.op, r.id, r.arg, "DocumentNotFoundError")
              /\ inflight' = [inflight EXCEPT ![s] = Idle]
              /\ UNCHANGED thoughts
         ELSE /\ thoughts' = SaveReactions(r)
              /\ inflight' = [inflight EXCEPT ![s] =
                                [r EXCEPT !.pc = "saved", !.local = LocalReactions(r)]]
              /\ last' = Step(r.op, r.id, r.arg, thoughts[r.id].reactions,
                              LocalReactions(r), NoResponse, "")
  /\ UNCHANGED <<userVars, nextThoughtId, reactions, nextReactionId>>

\* ReactionDelete with a fault: only the reference is removed, the Reaction
\* document is kept.
ReactionDeleteKeepsDocument(s) ==
  LET r == inflight[s] IN
  /\ r.pc = "saved"
  /\ last' = Answered(r.op, r.id, r.arg, 204)
  /\ inflight' = [inflight EXCEPT ![s] = Idle]
  /\ UNCHANGED <<userVars, thoughtVars>>

\* DELETE reactions, the rest: await Reaction.findByIdAndDelete(reactionId),
\* respond 204.
ReactionDelete(s) ==
  LET r == inflight[s] IN
  /\ r.pc = "saved"
  /\ reactions' = [x \in DOMAIN reactions \ {r.arg} |-> reactions[x]]
  /\ last' = Answered(r.op, r.id, r.arg, 204)
  /\ inflight' = [inflight EXCEPT ![s] = Idle]
  /\ UNCHANGED <<userVars, thoughts, nextThoughtId, nextReactionId>>

----------------------------------------------------------------------------
(* Specifications *)

\* Every route.
Next ==
  \/ GetUsers
  \/ \E body \in UserBodies : PostUsers(body)
  \/ \E id \in UserIds, body \in UserBodies : PutUser(id, body)
  \/ \E id \in UserIds : DeleteUser(id)
  \/ \E s \in Slots, op \in {"POST friends", "DELETE friends"},
        id \in UserIds, friendId \in UserIds : FriendFind(s, op, id, friendId)
  \/ \E s \in Slots : FriendSave(s)
  \/ GetThoughts
  \/ \E body \in ThoughtBodies : PostThoughts(body)
  \/ \E id \in ThoughtIds, body \in ThoughtBodies : PutThought(id, body)
  \/ \E id \in ThoughtIds : DeleteThought(id)
  \/ \E s \in Slots, id \in ThoughtIds, body \in ReactionBodies :
        ReactionFind(s, "POST reactions", id, body)
  \/ \E s \in Slots, id \in ThoughtIds, reactionId \in ReactionIds :
        ReactionFind(s, "DELETE reactions", id, reactionId)
  \/ \E s \in Slots : ReactionCreate(s)
  \/ \E s \in Slots : ReactionAttach(s)
  \/ \E s \in Slots : ReactionDetach(s)
  \/ \E s \in Slots : ReactionDelete(s)

Spec == Init /\ [][Next]_vars

\* No handler of one collection reads or writes another collection, so the
\* claims about one family of routes are checked on the behaviours of that
\* family alone.

\* The user CRUD routes.
NextAccounts ==
  \/ GetUsers
  \/ \E body \in UserBodies : PostUsers(body)
  \/ \E id \in UserIds, body \in UserBodies : PutUser(id, body)
  \/ \E id \in UserIds : DeleteUser(id)

SpecAccounts == Init /\ [][NextAccounts]_vars

\* Complete sign-up bodies with one password.
SignupBodies == [username : Usernames, email : Emails, password : {"p"}]

\* The friend routes, with the routes that create and delete their users.
NextFriends ==
  \/ \E body \in SignupBodies : PostUsers(body)
  \/ \E id \in UserIds : DeleteUser(id)
  \/ \E s \in Slots, op \in {"POST friends", "DELETE friends"},
        id \in UserIds, friendId \in UserIds : FriendFind(s, op, id, friendId)
  \/ \E s \in Slots : FriendSave(s)

SpecFriends == Init /\ [][NextFriends]_vars

\* The thought and reaction routes.
NextThoughts ==
  \/ GetThoughts
  \/ \E body \in ThoughtBodies : PostThoughts(body)
  \/ \E id \in ThoughtIds, body \in ThoughtBodies : PutThought(id, body)
  \/ \E id \in ThoughtIds : DeleteThought(id)
  \/ \E s \in Slots, id \in ThoughtIds, body \in ReactionBodies :
        ReactionFind(s, "POST reactions", id, body)
  \/ \E s \in Slots, id \in ThoughtIds, reactionId \in ReactionIds :
        ReactionFind(s, "DELETE reactions", id, reactionId)
  \/ \E s \in Slots : ReactionCreate(s)
  \/ \E s \in Slots : ReactionAttach(s)
  \/ \E s \in Slots : ReactionDetach(s)
  \/ \E s \in Slots : ReactionDelete(s)

SpecThoughts == Init /\ [][NextThoughts]_vars

----------------------------------------------------------------------------
(* Claims *)

Range(seq) == {seq[i] : i \in DOMAIN seq}

FriendOps == {"POST friends", "DELETE friends"}

\* C1: a user created by POST /users with the required fields and a fresh
\* email is stored with the hash of the submitted password, which is never
\* the submitted plaintext.
C1_CreateStoresHash ==
  (last.op = "POST /users" /\ last.status = 201) =>
    /\ last.id \in DOMAIN users
    /\ users[last.id].password = Hash(last.arg.password)
    /\ users[last.id].password # last.arg.password

\* C1 witness: a user has just been created.
C1_Created ==
  /\ last.op = "POST /users"
  /\ last.status = 201
  /\ last.id \in DOMAIN users

\* C2: a password set through PUT /users/:userId is hashed before it is
\* persisted: the stored password is not the submitted plaintext.
C2_UpdateStoresHash ==
  (/\ last.op = "PUT /users/:userId"
   /\ last.status = 200
   /\ last.id \in DOMAIN users
   /\ last.arg.password # Absent) =>
    users[last.id].password # last.arg.password

\* No two stored users share an email.
UniqueEmails ==
  \A u, v \in DOMAIN users : users[u].email = users[v].email => u = v

\* C3: POST /users with the email of a stored user fails with a uniqueness
\* violation, adds no document and leaves the stored users unchanged; no two
\* stored users ever share an email.
C3_DuplicateEmailRejected ==
  [][/\ \A body \in UserBodies :
          (/\ PostUsers(body)
           /\ UserRequired \subseteq BodyPaths(body)
           /\ \E u \in DOMAIN users : users[u].email = body.email) =>
            /\ users' = users
            /\ nextUserId' = nextUserId
            /\ last'.err = "E11000"
            /\ last'.status # 201
     /\ UniqueEmails']_vars

\* C3 witness: a create was rejected for its email while a user is stored.
C3_Rejected ==
  /\ last.op = "POST /users"
  /\ last.err = "E11000"
  /\ \E u \in DOMAIN users : users[u].email = last.arg.email

\* The DELETE friends request in slot s is about to save, and the last
\* thing any handler did was the save of POST friends with the same ids.
DetachFollowsAttach(s) ==
  /\ inflight[s].pc = "fetched"
  /\ inflight[s].op = "DELETE friends"
  /\ inflight[s].found
  /\ inflight[s].id \in DOMAIN users
  /\ last.op = "POST friends"
  /\ last.status = 201
  /\ last.id = inflight[s].id
  /\ last.arg = inflight[s].arg

\* C4 as stated: POST friends then DELETE friends with the same ids restores
\* the friends array, whatever it held before (F already a friend included).
C4_RoundTripRestores ==
  [][\A s \in Slots :
       (DetachFollowsAttach(s) /\ FriendSave(s)) =>
         users'[inflight[s].id].friends = last.before]_vars

\* C4 amended: POST friends then DELETE friends with the same ids restores
\* the friends array when F was not in it before the POST.
C4_RoundTripRestoresNewFriend ==
  [][\A s \in Slots :
       (/\ DetachFollowsAttach(s)
        /\ last.arg \notin Range(last.before)
        /\ FriendSave(s)) =>
         users'[inflight[s].id].friends = last.before]_vars

\* C4 witness: F was added to a non-empty array that did not hold it, and
\* the DELETE of the same ids has fetched the user and is about to save.
C4_DetachPending ==
  \E s \in Slots :
    /\ DetachFollowsAttach(s)
    /\ last.before # <<>>
    /\ last.arg \notin Range(last.before)
    /\ inflight[s].local = users[last.id].friends

\* C6: PUT /users/:userId with an id that matches no stored user is answered
\* with a not-found error.
C6_UnknownUserNotFound ==
  (last.op = "PUT /users/:userId" /\ last.id \notin DOMAIN users) =>
    last.status = 404

\* C8: a handler that throws is answered by the error-handling middleware
\* with status 500.
C8_FailureAnswered500 ==
  last.err # "" => last.status = 500

RemoveFollowsAdd(s) ==
  /\ inflight[s].pc = "fetched"
  /\ inflight[s].op = "DELETE reactions"
  /\ inflight[s].found
  /\ inflight[s].id \in DOMAIN thoughts
  /\ last.op = "POST reactions"
  /\ last.status = 201
  /\ last.id = inflight[s].id
  /\ last.arg = inflight[s].arg

\* C5: POST reactions creating R, followed immediately by DELETE reactions
\* of R on the same thought, returns the reactions array to what it was
\* (length and order), and R is no longer in the reactions collection.
C5_AddRemoveRestores ==
  [][\A s \in Slots :
       /\ (RemoveFollowsAdd(s) /\ ReactionDetach(s)) =>
            thoughts'[inflight[s].id].reactions = last.before
       /\ ReactionDelete(s) => inflight[s].arg \notin DOMAIN reactions']_vars

\* C5 witness: R, the reaction attached last after at least one other, was
\* just pulled from its thought, which is left with the earlier references.
C5_Detached ==
  /\ last.op = "DELETE reactions"
  /\ last.id \in DOMAIN thoughts
  /\ Len(last.before) >= 2
  /\ last.before[Len(last.before)] = last.arg
  /\ thoughts[last.id].reactions = SubSeq(last.before, 1, Len(last.before) - 1)

\* C7: POST reactions on a thoughtId that matches no stored thought fails
\* with a not-found error.
C7_MissingThoughtNotFound ==
  (/\ last.op = "POST reactions"
   /\ last.id \notin DOMAIN thoughts
   /\ last.err \notin {"", "ValidationError"}) =>
    /\ last.err = "NotFoundError"
    /\ last.status = 404

\* C9: DELETE /thoughts/:thoughtId removes only that thought: the reactions
\* collection, the other thoughts and the users are unchanged.
C9_DeleteThoughtNoCascade ==
  [][\A id \in ThoughtIds :
       DeleteThought(id) =>
         /\ reactions' = reactions
         /\ users' = users
         /\ DOMAIN thoughts' = DOMAIN thoughts \ {id}
         /\ \A t \in DOMAIN thoughts' : thoughts'[t] = thoughts[t]]_vars

\* C9 witness: a thought with attached reactions was just deleted and each
\* of them is still stored.
C9_ReactionsSurvive ==
  /\ last.op = "DELETE /thoughts/:thoughtId"
  /\ last.id \notin DOMAIN thoughts
  /\ last.before # <<>>
  /\ Range(last.before) \subseteq DOMAIN reactions

====
